---- MODULE Spec2Model ----
(***************************************************************************)
(* BSB checker service (bsb_checker_app/main.py).                          *)
(*                                                                         *)
(* The model covers the refresh path (update_bsb_database: fetch, pandas   *)
(* read_csv, strip, pandas to_sql with if_exists='replace'), the startup   *)
(* event, the POST /update-bsb trigger and the two query endpoints.        *)
(*                                                                         *)
(* Text is modelled as sequences of one-character strings, a payload as    *)
(* the sequence of its lines and a line as the sequence of its comma       *)
(* separated fields.  The SQLite table is a record: whether the table      *)
(* exists, whether it still carries the PRIMARY KEY of bsb_table, and its  *)
(* rows in insertion order.                                                *)
(***************************************************************************)
EXTENDS Integers, Sequences, FiniteSets, TLC

\* ---------------------------------------------------------------- bounds
MaxLines == 3
MaxTriggers == 2

\* ------------------------------------------------------------- constants
NumColumns == 8
BsbLength == 7
HyphenIndex == 3

\* column_names of update_bsb_database, in payload order
COLUMN_NAMES ==
    <<"BSB", "Bank", "Branch", "Street", "Suburb", "State", "PostCode", "Payments Accepted">>

ColBSB == 1
ColBank == 2

\* NaN in a DataFrame / NULL in a table column.  No text is equal to it: the
\* elements of a text are single characters.
NULL == <<"<NULL>">>

\* ------------------------------------------------------------------ text
K1 == <<"1", "1", "1", "-", "1", "1", "1">>
K9 == <<"9", "9", "9", "-", "9", "9", "9">>
K6 == <<"1", "2", "3", "4", "5", "6">>
X == <<"x">>

WHITESPACE == {" "}

\* The tokens pandas reads as missing (keep_default_na=True); the default
\* list is longer ("NULL", "NaN", "n/a", ...), these two stand for it.
NA_VALUES == {<<>>, <<"N", "A">>}

RECURSIVE LStrip(_)
LStrip(s) ==
    IF s # <<>> /\ Head(s) \in WHITESPACE THEN LStrip(Tail(s)) ELSE s

RECURSIVE RStrip(_)
RStrip(s) ==
    IF s # <<>> /\ s[Len(s)] \in WHITESPACE
    THEN RStrip(SubSeq(s, 1, Len(s) - 1))
    ELSE s

\* Series.str.strip(): NaN stays NaN
StrStrip(v) == IF v = NULL THEN NULL ELSE RStrip(LStrip(v))

\* ------------------------------------------------------------- the feed
\* a full line; a line with padded, empty, blank and NA fields and a key of
\* six digits; an empty line; a line of seven fields that repeats the key of
\* the first; a line of nine fields
LineA == <<K1, <<"A">>, X, X, X, X, X, X>>
LinePad == <<K6, <<" ", "A", " ">>, <<>>, <<" ">>, X, X, X, <<"N", "A">>>>
LineBlank == <<<<>>>>
LineShort == <<K1, <<"B">>, X, X, X, X, X>>
LineLong == <<K9, <<"A">>, X, X, X, X, X, X, X>>

FeedLines == {LineA, LinePad, LineBlank, LineShort, LineLong}

RECURSIVE SeqsUpTo(_, _)
SeqsUpTo(S, n) ==
    IF n = 0 THEN {<<>>}
    ELSE LET shorter == SeqsUpTo(S, n - 1)
         IN shorter \cup {Append(p, l) : p \in {q \in shorter : Len(q) = n - 1}, l \in S}

\* every text the upstream may serve: up to MaxLines lines
Payloads == SeqsUpTo(FeedLines, MaxLines)

\* ---------------------------------------------------------- pd.read_csv
\* skip_blank_lines=True: an empty or whitespace-only line is no row
IsBlankLine(l) == Len(l) = 1 /\ LStrip(l[1]) = <<>>

\* skiprows left out: the first line is read as a row
SkipRowsNone(p) == p

\* skiprows=1: the first line of the text is dropped, whatever it is
SkipRows(p) == IF p = <<>> THEN <<>> ELSE Tail(p)

DataLines(p) == SelectSeq(SkipRows(p), LAMBDA l : ~IsBlankLine(l))

Max(a, b) == IF a >= b THEN a ELSE b

\* expected_fields: the larger of len(names) and the first row's field count
ExpectedFields(data) == Max(Len(data[1]), NumColumns)

\* a later row with more fields than expected: "Expected n fields, saw m"
ParserError(p) ==
    LET data == DataLines(p)
    IN  /\ data # <<>>
        /\ \E i \in 2..Len(data) : Len(data[i]) > ExpectedFields(data)

\* one row: short rows are padded with NaN, NA tokens become NaN, and the
\* columns in front of the last len(names) ones are the implicit index
ReadRow(l, width) ==
    [c \in 1..NumColumns |->
        LET i == c + (width - NumColumns)
        IN  IF i > Len(l) THEN NULL
            ELSE IF l[i] \in NA_VALUES THEN NULL
            ELSE l[i]]

\* pd.read_csv(csv_data, header=None, names=column_names, dtype=str, skiprows=1)
ReadCsv(p) ==
    LET data == DataLines(p)
    IN  IF data = <<>> THEN <<>>
        ELSE [r \in 1..Len(data) |-> ReadRow(data[r], ExpectedFields(data))]

\* for col in df.columns: df[col] = df[col].str.strip()
StripColumns(df) ==
    [r \in 1..Len(df) |-> [c \in 1..NumColumns |-> StrStrip(df[r][c])]]

\* ------------------------------------------------------------- the store
\* metadata.create_all(): bsb_table with its PRIMARY KEY, no rows
CreatedTable == [exists |-> TRUE, pk |-> TRUE, rows |-> <<>>]

\* the database without the table (file removed, or table dropped)
NoTable == [exists |-> FALSE, pk |-> FALSE, rows |-> <<>>]

\* the table pandas creates for a DataFrame: TEXT columns, no key
FrameTable == [exists |-> TRUE, pk |-> FALSE, rows |-> <<>>]

\* what an earlier run of the process left in bsb_data.db
PersistedRows == StripColumns(ReadCsv(<<LineBlank, LineA>>))

PersistedTable == [exists |-> TRUE, pk |-> FALSE, rows |-> PersistedRows]

HasDuplicateKey(rows) ==
    \E i, j \in 1..Len(rows) : i # j /\ rows[i][ColBSB] = rows[j][ColBSB]

\* ------------------------------------------------------------ the tasks
Startup == 0
Tasks == 0..MaxTriggers
Background == 1..MaxTriggers

Accepted == [status |-> 202, message |-> "BSB database update initiated in the background."]
NoAck == [status |-> 0, message |-> ""]

NoResponse ==
    [op |-> "none", arg |-> <<>>, status |-> 0, detail |-> "", body |-> <<>>,
     queried |-> FALSE, seen |-> NoTable, during |-> {}]

VARIABLES
    feed,       \* the texts the upstream at BSB_CSV_URL may answer with
    table,      \* the bsb_records table of bsb_data.db
    serving,    \* startup_event has returned: requests are served
    pc,         \* where each call of update_bsb_database is
    text,       \* response.text of each call under way
    df,         \* the DataFrame of each call under way
    outcome,    \* how each call ended: the log line it wrote
    ack,        \* the response of the POST /update-bsb that queued each call
    pre,        \* the table as it was when each call under way began
    after,      \* the table as it was when each call ended
    resp        \* the response of the query handled in the step just taken

vars == <<feed, table, serving, pc, text, df, outcome, ack, pre, after, resp>>

Running(t) == pc[t] \in {"fetch", "parse", "to_sql", "create", "insert"}

\* the state of the process once main.py is imported, with the texts the
\* upstream may answer with
InitWith(texts) ==
    /\ feed = texts
    /\ table \in {CreatedTable, PersistedTable}
    /\ serving = FALSE
    /\ pc = [t \in Tasks |-> "idle"]
    /\ text = [t \in Tasks |-> <<>>]
    /\ df = [t \in Tasks |-> <<>>]
    /\ outcome = [t \in Tasks |-> "none"]
    /\ ack = [t \in Tasks |-> NoAck]
    /\ pre = [t \in Tasks |-> NoTable]
    /\ after = [t \in Tasks |-> NoTable]
    /\ resp = NoResponse

\* ------------------------------------------------- update_bsb_database
\* a call ends: its except clause or its last log line.  The startup call
\* is the last statement of startup_event, which returns with it.
Finish(t, how) ==
    /\ pc' = [pc EXCEPT ![t] = "done"]
    /\ outcome' = [outcome EXCEPT ![t] = how]
    /\ after' = [after EXCEPT ![t] = table']
    /\ serving' = (serving \/ t = Startup)
    /\ text' = [text EXCEPT ![t] = <<>>]
    /\ df' = [df EXCEPT ![t] = <<>>]
    /\ pre' = [pre EXCEPT ![t] = NoTable]

Goto(t, label) ==
    /\ pc' = [pc EXCEPT ![t] = label]
    /\ UNCHANGED <<outcome, after, serving>>

\* a queued call that is dropped instead of run
BeginDropsTask(t) ==
    /\ t \in Background
    /\ pc[t] = "queued"
    /\ Goto(t, "idle")
    /\ resp' = NoResponse
    /\ UNCHANGED <<feed, table, text, df, ack, pre>>

\* the background task of a trigger starts, after the response was sent
Begin(t) ==
    /\ t \in Background
    /\ pc[t] = "queued"
    /\ pre' = [pre EXCEPT ![t] = table]
    /\ Goto(t, "fetch")
    /\ resp' = NoResponse
    /\ UNCHANGED <<feed, table, text, df, ack>>

\* requests.get(BSB_CSV_URL, timeout=60) and raise_for_status() succeed
FetchOk(t) ==
    /\ pc[t] = "fetch"
    /\ \E p \in feed : text' = [text EXCEPT ![t] = p]
    /\ Goto(t, "parse")
    /\ resp' = NoResponse
    /\ UNCHANGED <<feed, table, df, ack, pre>>

\* transport error, timeout or bad status: except RequestException
FetchFail(t) ==
    /\ pc[t] = "fetch"
    /\ resp' = NoResponse
    /\ UNCHANGED <<feed, table, ack>>
    /\ Finish(t, "RequestException")

\* read_csv and the strip loop
ParseOk(t) ==
    /\ pc[t] = "parse"
    /\ ~ParserError(text[t])
    /\ df' = [df EXCEPT ![t] = StripColumns(ReadCsv(text[t]))]
    /\ Goto(t, "to_sql")
    /\ resp' = NoResponse
    /\ UNCHANGED <<feed, table, text, ack, pre>>

\* the table dropped before the text is parsed
ParseFailAfterDrop(t) ==
    /\ pc[t] = "parse"
    /\ ParserError(text[t])
    /\ table' = NoTable
    /\ resp' = NoResponse
    /\ UNCHANGED <<feed, ack>>
    /\ Finish(t, "ParserError")

\* read_csv raises: except pd.errors.ParserError
ParseFail(t) ==
    /\ pc[t] = "parse"
    /\ ParserError(text[t])
    /\ resp' = NoResponse
    /\ UNCHANGED <<feed, table, ack>>
    /\ Finish(t, "ParserError")

\* if_exists='append': neither DROP TABLE nor CREATE TABLE
ToSqlAppend(t) ==
    /\ pc[t] = "to_sql"
    /\ Goto(t, "insert")
    /\ resp' = NoResponse
    /\ UNCHANGED <<feed, table, text, df, ack, pre>>

\* df.to_sql(TABLE_NAME, con=engine, if_exists='replace', index=False) is
\* three statements on the connection.  SQLite's driver commits each DDL
\* statement on its own and opens a transaction only for the INSERT.
\* 1. the table exists: DROP TABLE
ToSqlDrop(t) ==
    /\ pc[t] = "to_sql"
    /\ table' = NoTable
    /\ Goto(t, "create")
    /\ resp' = NoResponse
    /\ UNCHANGED <<feed, text, df, ack, pre>>

\* 2. CREATE TABLE from the frame's columns; "table already exists" when
\*    another call created it meanwhile: except Exception
ToSqlCreate(t) ==
    /\ pc[t] = "create"
    /\ IF table.exists
       THEN /\ UNCHANGED table
            /\ Finish(t, "Exception")
       ELSE /\ table' = FrameTable
            /\ Goto(t, "insert")
            /\ UNCHANGED <<text, df, pre>>
    /\ resp' = NoResponse
    /\ UNCHANGED <<feed, ack>>

\* 3. INSERT every row of the frame and commit; "no such table" when another
\*    call dropped it meanwhile, a key violation when the table has a key
ToSqlInsert(t) ==
    /\ pc[t] = "insert"
    /\ LET rows == table.rows \o df[t]
       IN  IF ~table.exists \/ (table.pk /\ HasDuplicateKey(rows))
           THEN /\ UNCHANGED table
                /\ Finish(t, "Exception")
           ELSE /\ table' = [table EXCEPT !.rows = rows]
                /\ Finish(t, "ok")
    /\ resp' = NoResponse
    /\ UNCHANGED <<feed, ack>>

\* ------------------------------------------------------- startup_event
\* os.remove of the database file (removed is FALSE on OSError), then
\* metadata.create_all, then the call of update_bsb_database
StartupEvent(removed) ==
    /\ ~serving
    /\ pc[Startup] = "idle"
    /\ table' = IF removed THEN CreatedTable ELSE table
    /\ pre' = [pre EXCEPT ![Startup] = table']
    /\ Goto(Startup, "fetch")
    /\ resp' = NoResponse
    /\ UNCHANGED <<feed, text, df, ack>>

\* --------------------------------------------------- POST /update-bsb
\* the handler calls update_bsb_database itself and answers afterwards
TriggerRunsInline(t) ==
    /\ serving
    /\ t \in Background
    /\ pc[t] = "idle"
    /\ \A u \in Background : u < t => pc[u] # "idle"
    /\ pre' = [pre EXCEPT ![t] = table]
    /\ Goto(t, "fetch")
    /\ resp' = NoResponse
    /\ UNCHANGED <<feed, table, text, df, ack>>

\* background_tasks.add_task(update_bsb_database); return the message
TriggerUpdateBsb(t) ==
    /\ serving
    /\ t \in Background
    /\ pc[t] = "idle"
    /\ \A u \in Background : u < t => pc[u] # "idle"
    /\ ack' = [ack EXCEPT ![t] = Accepted]
    /\ Goto(t, "queued")
    /\ resp' = NoResponse
    /\ UNCHANGED <<feed, table, text, df, pre>>

\* ------------------------------------------------------------ queries
\* the characters of the model in code point order (SQLite compares text
\* byte by byte)
CodePoints == <<" ", "-", "1", "2", "3", "4", "5", "6", "7", "9", "A", "B", "N", "x">>

Ord(c) == CHOOSE i \in 1..Len(CodePoints) : CodePoints[i] = c

RECURSIVE TextLess(_, _)
TextLess(a, b) ==
    IF b = <<>> THEN FALSE
    ELSE IF a = <<>> THEN TRUE
    ELSE IF Head(a) = Head(b) THEN TextLess(Tail(a), Tail(b))
    ELSE Ord(Head(a)) < Ord(Head(b))

\* the order of ORDER BY on a TEXT column: NULL before every text
ValueLess(a, b) ==
    IF b = NULL THEN FALSE
    ELSE IF a = NULL THEN TRUE
    ELSE TextLess(a, b)

\* ORDER BY ... DESC over distinct values
RECURSIVE OrderDesc(_)
OrderDesc(S) ==
    IF S = {} THEN <<>>
    ELSE LET top == CHOOSE v \in S : \A w \in S \ {v} : ValueLess(w, v)
         IN  <<top>> \o OrderDesc(S \ {top})

\* what the handlers know of the refreshes under way when they read; kept
\* with the response to state what a reader may see
RefreshesUnderWay ==
    {[pre |-> pre[t], parsed |-> pc[t] \in {"to_sql", "create", "insert"}, post |-> df[t]] :
        t \in {u \in Tasks : Running(u)}}

Response(op, arg, status, detail, body, queried) ==
    [op |-> op, arg |-> arg, status |-> status, detail |-> detail, body |-> body,
     queried |-> queried, seen |-> table, during |-> RefreshesUnderWay]

\* a statement on a missing table raises OperationalError: the framework
\* answers 500
ServerError(op, arg) == Response(op, arg, 500, "Internal Server Error", <<>>, TRUE)

\* db.query(BSBRecord.Bank).distinct().order_by(desc(BSBRecord.Bank)).all()
BanksQuery == OrderDesc({table.rows[i][ColBank] : i \in 1..Len(table.rows)})

\* a bank name is kept "if bank[0]": neither None nor ''
Truthy(v) == v # NULL /\ v # <<>>

\* a handler that creates the table when it finds none
GetAllBanksCreating ==
    /\ serving
    /\ resp' = IF ~table.exists THEN ServerError("banks", <<>>)
               ELSE IF BanksQuery = <<>> THEN Response("banks", <<>>, 200, "", <<>>, TRUE)
               ELSE Response("banks", <<>>, 200, "", SelectSeq(BanksQuery, Truthy), TRUE)
    /\ table' = IF table.exists THEN table ELSE CreatedTable
    /\ UNCHANGED <<feed, serving, pc, text, df, outcome, ack, pre, after>>

\* GET /banks
GetAllBanks ==
    /\ serving
    /\ resp' = IF ~table.exists THEN ServerError("banks", <<>>)
               ELSE IF BanksQuery = <<>> THEN Response("banks", <<>>, 200, "", <<>>, TRUE)
               ELSE Response("banks", <<>>, 200, "", SelectSeq(BanksQuery, Truthy), TRUE)
    /\ UNCHANGED <<feed, table, serving, pc, text, df, outcome, ack, pre, after>>

\* the length alone
ValidLength(b) == Len(b) = BsbLength

\* len(bsb_number) == 7 and bsb_number[3] == '-'
ValidShape(b) == Len(b) = BsbLength /\ b[HyphenIndex + 1] = "-"

\* db.query(BSBRecord).filter(BSBRecord.BSB == bsb_number).first()
FirstRecord(b) ==
    LET hits == SelectSeq(table.rows, LAMBDA r : r[ColBSB] = b)
    IN  IF hits = <<>> THEN <<>> ELSE <<hits[1]>>

\* the path values the model asks for
BsbNumbers ==
    { K1, K9, K6,
      <<"1", "2", "3", "4", "5", "6", "7">>,
      <<"1", "2">> }

\* the path values asked for while refreshes run side by side: one of
\* valid shape, one not
Asked == {K1, K6}

\* GET /bsb/{bsb_number}
GetBsbDetails(b) ==
    /\ serving
    /\ resp' = IF ~ValidShape(b)
               THEN Response("bsb", b, 400, "Invalid BSB format. Use XXX-XXX.", <<>>, FALSE)
               ELSE IF ~table.exists THEN ServerError("bsb", b)
               ELSE IF FirstRecord(b) = <<>>
               THEN Response("bsb", b, 404, "BSB number not found", <<>>, TRUE)
               ELSE Response("bsb", b, 200, "", FirstRecord(b), TRUE)
    /\ UNCHANGED <<feed, table, serving, pc, text, df, outcome, ack, pre, after>>

\* the query strings the tests send to /banks/filter, as <<name, state,
\* payments_accepted>> with NULL for a parameter that is not sent
INVALID == <<"I", "N", "V", "A", "L", "I", "D">>

Filters ==
    { <<NULL, NULL, NULL>>,
      <<<<"a">>, NULL, NULL>>,
      <<<<"a">>, <<"X">>, NULL>>,
      <<NULL, NULL, <<"X">>>>,
      <<<<"b">>, NULL, <<"n">>>>,
      <<NULL, INVALID, NULL>> }

\* GET /banks/filter: the app registers /update-bsb, /banks and
\* /bsb/{bsb_number} only; the router matches none of them and answers 404
\* 'Not Found' without calling a handler
GetBanksFilter(q) ==
    /\ serving
    /\ resp' = Response("filter", q, 404, "Not Found", <<>>, FALSE)
    /\ UNCHANGED <<feed, table, serving, pc, text, df, outcome, ack, pre, after>>

\* ------------------------------------------------------------ behaviour
\* the texts the upstream answers with over a run of the service: a feed
\* of two branches, an issue that repeats a bsb, a broken issue
Feed ==
    { <<LineBlank, LineA, LinePad>>,
      <<LineBlank, LineA, LineShort>>,
      <<LineBlank, LineA, LineLong>> }

Init == InitWith(Feed)

Next ==
    \/ \E removed \in BOOLEAN : StartupEvent(removed)
    \/ \E t \in Background : TriggerUpdateBsb(t)
    \/ \E t \in Background : Begin(t)
    \/ \E t \in Tasks : FetchOk(t)
    \/ \E t \in Tasks : FetchFail(t)
    \/ \E t \in Tasks : ParseOk(t)
    \/ \E t \in Tasks : ParseFail(t)
    \/ \E t \in Tasks : ToSqlDrop(t)
    \/ \E t \in Tasks : ToSqlCreate(t)
    \/ \E t \in Tasks : ToSqlInsert(t)
    \/ GetAllBanks
    \/ \E b \in Asked : GetBsbDetails(b)

Spec == Init /\ [][Next]_vars

\* One request at a time against an upstream that does not change: the
\* upstream holds one text, and a trigger or a query is sent only when no
\* call is queued or under way.
InitSerial == \E p \in Payloads : InitWith({p})

Quiet == \A t \in Tasks : pc[t] \in {"idle", "done"}

NextSerial ==
    \/ \E removed \in BOOLEAN : StartupEvent(removed)
    \/ \E t \in Background : Quiet /\ TriggerUpdateBsb(t)
    \/ \E t \in Background : Begin(t)
    \/ \E t \in Tasks : FetchOk(t)
    \/ \E t \in Tasks : FetchFail(t)
    \/ \E t \in Tasks : ParseOk(t)
    \/ \E t \in Tasks : ParseFail(t)
    \/ \E t \in Tasks : ToSqlDrop(t)
    \/ \E t \in Tasks : ToSqlCreate(t)
    \/ \E t \in Tasks : ToSqlInsert(t)
    \/ Quiet /\ GetAllBanks
    \/ \E b \in BsbNumbers : Quiet /\ GetBsbDetails(b)
    \/ \E q \in Filters : Quiet /\ GetBanksFilter(q)

SpecSerial == InitSerial /\ [][NextSerial]_vars

\* The service under fair scheduling: the thread pool runs every queued
\* call, and every step of a call that has begun returns or raises (the
\* fetch has a timeout, the other steps are local), so a call that can take
\* a step takes one.
Step(t) ==
    \/ Begin(t)
    \/ FetchOk(t)
    \/ FetchFail(t)
    \/ ParseOk(t)
    \/ ParseFail(t)
    \/ ToSqlDrop(t)
    \/ ToSqlCreate(t)
    \/ ToSqlInsert(t)

SpecFair == Init /\ [][Next]_vars /\ \A t \in Tasks : WF_vars(Step(t))

\* --------------------------------------------------------------- claims
Failures == {"RequestException", "ParserError", "Exception"}

\* C1: a query that runs while a refresh is under way sees the whole record
\* set from before that refresh or the whole record set of that refresh,
\* never a missing or transiently empty store.
AtomicReplace ==
    (resp.queried /\ resp.during # {}) =>
        \E r \in resp.during :
            /\ resp.seen.exists
            /\ \/ resp.seen.rows = r.pre.rows
               \/ r.parsed /\ resp.seen.rows = r.post

\* C2: at most one call of update_bsb_database is between its start and its
\* end at any time.
RefreshesSerialized == Cardinality({t \in Tasks : Running(t)}) <= 1

\* C3: a refresh that fails at the fetch or at the parse leaves the store as
\* it was: no step a call takes from its fetch or its parse changes the table.
FailedFetchOrParseKeepsStore ==
    [][\A t \in Tasks :
          (pc[t] \in {"fetch", "parse"} /\ pc'[t] # pc[t]) => table' = table]_vars

FetchOrParseFailedOnData ==
    /\ table.rows # <<>>
    /\ \E t, u \in Tasks :
          /\ outcome[t] = "ParserError" /\ after[t] = table
          /\ outcome[u] = "RequestException" /\ after[u] = table

\* C4: the store holds no records or exactly the record set of one parse of
\* one payload (of this run of the process or of the run that left the file).
StoreIsOneSnapshot ==
    \/ table.rows = <<>>
    \/ table.rows = PersistedRows
    \/ \E p \in feed : ~ParserError(p) /\ table.rows = StripColumns(ReadCsv(p))

\* C5: no two stored records have the same bsb.
BsbUnique ==
    \A i, j \in 1..Len(table.rows) :
        i # j => table.rows[i][ColBSB] # table.rows[j][ColBSB]

\* C6: every field of a stored record other than the key is a text, never
\* null.
FieldsNeverNull ==
    \A i \in 1..Len(table.rows) :
        \A c \in (1..NumColumns) \ {ColBSB} : table.rows[i][c] # NULL

\* C7: two calls in succession against an upstream whose text does not
\* change leave the same store: the store after the second is the store
\* after the first.
RefreshIdempotent ==
    \A t \in Background :
        ( /\ Cardinality(feed) = 1
          /\ pc[t] = "done" /\ pc[t - 1] = "done"
          /\ outcome[t] # "RequestException"
          /\ outcome[t - 1] # "RequestException" )
        => after[t] = after[t - 1]

RefreshedTwice ==
    \E t \in Background :
        /\ Cardinality(feed) = 1
        /\ outcome[t] = "ok" /\ outcome[t - 1] = "ok"
        /\ after[t - 1].rows \notin {<<>>, PersistedRows}
        /\ after[t] = after[t - 1]

TriggerAcknowledgedFirst ==
    \A t \in Background : pc[t] # "idle" => ack[t] = Accepted

AcknowledgedBothOutcomes ==
    \E t, u \in Background :
        /\ pc[t] = "queued" /\ ack[t] = Accepted
        /\ outcome[u] \in Failures /\ ack[u] = Accepted

\* C10: a bsb_number that is not 7 characters with a hyphen at index 3 gets
\* 400 'Invalid BSB format. Use XXX-XXX.' whatever the store holds, and the
\* store is not read.
InvalidShapeRejected ==
    ( /\ resp.op = "bsb"
      /\ \/ Len(resp.arg) # 7
         \/ resp.arg[4] # "-" )
    => /\ resp.status = 400
       /\ resp.detail = "Invalid BSB format. Use XXX-XXX."
       /\ ~resp.queried

RejectedThoughStored ==
    /\ resp.op = "bsb"
    /\ resp.arg = K6
    /\ resp.status = 400
    /\ \E i \in 1..Len(resp.seen.rows) : resp.seen.rows[i][ColBSB] = K6

\* C11: a bsb_number of valid shape is answered with the eight stored values
\* of a record that has that key when the store holds one, and with 404
\* 'BSB number not found' when the store holds none.
ValidShapeAnswered ==
    (resp.op = "bsb" /\ Len(resp.arg) = 7 /\ resp.arg[4] = "-") =>
        IF \E i \in 1..Len(resp.seen.rows) : resp.seen.rows[i][ColBSB] = resp.arg
        THEN /\ resp.status = 200
             /\ Len(resp.body) = 1
             /\ \E i \in 1..Len(resp.seen.rows) :
                   /\ resp.seen.rows[i][ColBSB] = resp.arg
                   /\ resp.body[1] = resp.seen.rows[i]
        ELSE /\ resp.status = 404
             /\ resp.detail = "BSB number not found"

\* C12: GET /banks answers, whatever the store holds, with the bank names of
\* the stored records that are neither null nor empty, each once, in
\* descending order; with no records it answers with the empty list, not
\* with an error.
BanksListedDescending ==
    resp.op = "banks" =>
        /\ resp.status = 200
        /\ {resp.body[k] : k \in 1..Len(resp.body)} =
               {resp.seen.rows[i][ColBank] : i \in 1..Len(resp.seen.rows)} \ {NULL, <<>>}
        /\ \A j, k \in 1..Len(resp.body) : j < k => TextLess(resp.body[k], resp.body[j])

\* C13: GET /banks answers 200 with the bank names of the store, each once,
\* in ascending order (the value of the key 'banks' of the JSON object the
\* tests read).
BanksListedAscending ==
    resp.op = "banks" =>
        /\ resp.status = 200
        /\ {resp.body[k] : k \in 1..Len(resp.body)} =
               {resp.seen.rows[i][ColBank] : i \in 1..Len(resp.seen.rows)} \ {NULL, <<>>}
        /\ \A j, k \in 1..Len(resp.body) : j < k => TextLess(resp.body[j], resp.body[k])

\* the criteria of the filter tests: a record satisfies a query when every
\* parameter sent matches its field without regard to case
ColState == 6
ColPayments == 8

LowerCase(c) ==
    IF c = "A" THEN "a" ELSE IF c = "B" THEN "b" ELSE IF c = "N" THEN "n"
    ELSE IF c = "X" THEN "x" ELSE c

LowerText(v) == [k \in 1..Len(v) |-> LowerCase(v[k])]

Contains(part, v) ==
    \E k \in 0..(Len(v) - Len(part)) : SubSeq(v, k + 1, k + Len(part)) = part

Satisfies(r, q) ==
    /\ q[1] # NULL => (r[ColBank] # NULL /\ Contains(LowerText(q[1]), LowerText(r[ColBank])))
    /\ q[2] # NULL => (r[ColState] # NULL /\ LowerText(q[2]) = LowerText(r[ColState]))
    /\ q[3] # NULL => (r[ColPayments] # NULL /\ Contains(LowerText(q[3]), LowerText(r[ColPayments])))

\* C14: GET /banks/filter answers 200 with the bank names, each once, of the
\* records that satisfy every criterion sent (name and payments_accepted:
\* contained in the field, state: equal to the field, all without regard to
\* case); with no criterion these are all bank names, with no matching
\* record the list is empty.
FilterAnswered ==
    (resp.op = "filter" /\ resp.arg[2] # INVALID) =>
        /\ resp.status = 200
        /\ Cardinality({resp.body[k] : k \in 1..Len(resp.body)}) = Len(resp.body)
        /\ {resp.body[k] : k \in 1..Len(resp.body)} =
               {resp.seen.rows[i][ColBank] :
                   i \in {j \in 1..Len(resp.seen.rows) : Satisfies(resp.seen.rows[j], resp.arg)}}

\* C15: GET /banks/filter with a state that is no state code (INVALID) is
\* answered 400 with the detail 'Invalid state code'.
InvalidStateRejected ==
    (resp.op = "filter" /\ resp.arg[2] = INVALID) =>
        /\ resp.status = 400
        /\ resp.detail = "Invalid state code"

\* C16: a refresh that ends in a failure of any kind leaves the store in its
\* last good state: when a call ends in a failure the table exists and holds
\* the records it held when the call began, or the records a call that
\* ended well has left.
FailedRefreshKeepsLastGood ==
    [][\A t \in Tasks :
          (pc[t] # "done" /\ pc'[t] = "done" /\ outcome'[t] \in Failures) =>
              /\ table'.exists
              /\ \/ table'.rows = pre[t].rows
                 \/ \E u \in Tasks \ {t} :
                       outcome'[u] = "ok" /\ table'.rows = after'[u].rows]_vars

\* C17: no request is answered before the call of update_bsb_database that
\* startup_event makes has ended, and when it has ended the store holds no
\* records or the records that call has parsed, never the records of the
\* file an earlier run of the process left.
StartupRebuildsStore ==
    /\ resp.op # "none" => pc[Startup] = "done"
    /\ pc[Startup] = "done" =>
          \/ after[Startup].rows = <<>>
          \/ /\ outcome[Startup] = "ok"
             /\ \E p \in feed :
                   ~ParserError(p) /\ after[Startup].rows = StripColumns(ReadCsv(p))

\* C18: a payload with a line after the first that is not blank and has
\* fewer or more than 8 fields makes the refresh end as a parse error: a
\* call that has fetched such a payload never ends well, so no record of a
\* short or a long line is stored.
WrongWidthAborts ==
    \A p \in feed : \A t \in Tasks :
        ( /\ feed = {p}
          /\ pc[t] = "done" /\ outcome[t] # "RequestException"
          /\ \E i \in 2..Len(p) : ~IsBlankLine(p[i]) /\ Len(p[i]) # NumColumns )
        => outcome[t] = "ParserError"

\* C19: only the steps of update_bsb_database write the store: a step that
\* answers a request for /banks or /bsb/{bsb_number}, with a result or with
\* an error, and a step that accepts a trigger leave the table as it is.
OnlyRefreshWrites ==
    [][( \/ resp'.op # "none"
         \/ \E t \in Background : pc[t] = "idle" /\ pc'[t] = "queued" )
       => table' = table]_vars

AnsweredAndTriggeredOnData ==
    /\ resp.op = "bsb" /\ resp.status = 400
    /\ resp.seen = table
    /\ table.rows # <<>>
    /\ \E t \in Background : pc[t] = "queued" /\ ack[t] = Accepted

\* C20: an accepted trigger is run once, neither dropped nor run again (a
\* queued call only begins, a call begins only when queued, a call that has
\* ended stays ended), and under fair scheduling every queued or begun call
\* ends, well or in a logged failure.
TriggersRunOnceToTheEnd ==
    /\ [][\A t \in Background :
            /\ pc[t] = "queued" => pc'[t] \in {"queued", "fetch"}
            /\ (pc'[t] = "fetch" /\ pc[t] # "fetch") => (pc[t] = "queued" /\ ack[t] = Accepted)
            /\ pc[t] = "done" => pc'[t] = "done"]_vars
    /\ \A t \in Background :
          (pc[t] = "queued") ~> (pc[t] = "done" /\ outcome[t] \in Failures \cup {"ok"})

BothTriggersRanToTheEnd ==
    /\ pc[1] = "done" /\ pc[2] = "done"
    /\ ack[1] = Accepted /\ ack[2] = Accepted
    /\ outcome[1] = "Exception"
    /\ outcome[2] = "ok"

====
